---- MODULE Spec2Model ----
(***************************************************************************)
(* A model of zipvoice/dataset/datamodule.py: the TtsDataModule loader     *)
(* constructors (train_dataloaders, dev_dataloaders, test_dataloaders),    *)
(* the _SeedWorkers worker initialiser and the lru_cache'd manifest        *)
(* accessors.  Calls into lhotse and torch are recorded by the arguments   *)
(* the module passes to them; what those libraries do with the arguments   *)
(* is outside this file and is not modelled.                               *)
(***************************************************************************)
EXTENDS Integers, Sequences, FiniteSets, TLC

VARIABLES
    modules,    \* the TtsDataModule objects made so far: modules[i] is self.args
    loaders,    \* the DataLoader objects returned so far, in construction order
    draws,      \* the values taken from the ambient torch generator, in order
    workers,    \* per loader, the seed each started worker was reseeded with
    cache,      \* per accessor, its lru_cache: entries from least to most recent
    loads,      \* every load_manifest_lazy call so far, in call order
    result      \* the last accessor call: its signature and what it returned

vars == <<modules, loaders, draws, workers, cache, loads, result>>

loaderVars == <<loaders, draws, workers>>
cacheVars == <<cache, loads, result>>

-----------------------------------------------------------------------------
(* Bounds of the model.                                                    *)

MaxLoaders == 2
MaxModules == 2
MaxCustom == 1
MaxCalls == 2
MaxExtra == 1

(* Optional values: None, or one value.                                    *)
None == <<>>
Some(x) == <<x>>

-----------------------------------------------------------------------------
(* add_arguments: the options this module reads, with sample values around *)
(* the defaults.                                                           *)

Budgets == {<<200, 30>>, <<20, 1>>}
NumWorkers == {0, 2}

DefaultArgs ==
    [manifest_dir |-> "data/fbank",
     max_duration |-> 200,
     bucketing_sampler |-> TRUE,
     num_buckets |-> 30,
     on_the_fly_feats |-> FALSE,
     shuffle |-> TRUE,
     drop_last |-> TRUE,
     return_cuts |-> FALSE,
     num_workers |-> 8]

ArgsSet ==
    {[DefaultArgs EXCEPT !.max_duration = b[1],
                         !.num_buckets = b[2],
                         !.bucketing_sampler = f[1],
                         !.on_the_fly_feats = f[2],
                         !.shuffle = f[3],
                         !.drop_last = f[4],
                         !.return_cuts = f[5],
                         !.num_workers = n] :
        b \in Budgets, f \in [1..5 -> BOOLEAN], n \in NumWorkers}

(* The cut collections and saved sampler states a caller may pass in.      *)
TrainCutSets == {"cuts_train"}
CutSets == {"cuts_a", "cuts_b"}
StateDicts == {None, Some([epoch |-> 1, kept_cuts |-> 3])}

-----------------------------------------------------------------------------
(* The SpeechSynthesisDataset each phase builds: the keyword arguments     *)
(* passed.  An argument that is not passed is not a field of the record.   *)

FeatureInputStrategy(args) ==
    IF args.on_the_fly_feats THEN "OnTheFlyFeatures(VocosFbank)"
    ELSE "PrecomputedFeatures"

TrainDataset(args) ==
    [return_text |-> TRUE,
     return_tokens |-> TRUE,
     return_spk_ids |-> TRUE,
     feature_input_strategy |-> FeatureInputStrategy(args),
     return_cuts |-> args.return_cuts]

(* A faulty variant: the dev dataset asked for raw audio as well.           *)
DevDatasetWithAudio(args) ==
    [return_text |-> TRUE,
     return_tokens |-> TRUE,
     return_spk_ids |-> TRUE,
     feature_input_strategy |-> FeatureInputStrategy(args),
     return_cuts |-> args.return_cuts,
     return_audio |-> TRUE]

DevDataset(args) ==
    [return_text |-> TRUE,
     return_tokens |-> TRUE,
     return_spk_ids |-> TRUE,
     feature_input_strategy |-> FeatureInputStrategy(args),
     return_cuts |-> args.return_cuts]

TestDataset(args) ==
    [return_text |-> TRUE,
     return_tokens |-> TRUE,
     return_spk_ids |-> TRUE,
     feature_input_strategy |-> FeatureInputStrategy(args),
     return_cuts |-> args.return_cuts,
     return_audio |-> TRUE]

-----------------------------------------------------------------------------
(* The samplers: the class, the cut collection and the keyword arguments   *)
(* passed, and the state dict loaded into it (None when none was).         *)

(* A faulty variant: the bucketing-sampler option is ignored.               *)
TrainSamplerAlwaysBucketing(args, cuts_train) ==
    [kind |-> "DynamicBucketingSampler",
     cuts |-> cuts_train,
     kwargs |-> [max_duration |-> args.max_duration,
                 shuffle |-> args.shuffle,
                 num_buckets |-> args.num_buckets,
                 buffer_size |-> args.num_buckets * 2000,
                 shuffle_buffer_size |-> args.num_buckets * 5000,
                 drop_last |-> args.drop_last],
     state |-> None]

TrainSampler(args, cuts_train) ==
    IF args.bucketing_sampler
    THEN [kind |-> "DynamicBucketingSampler",
          cuts |-> cuts_train,
          kwargs |-> [max_duration |-> args.max_duration,
                      shuffle |-> args.shuffle,
                      num_buckets |-> args.num_buckets,
                      buffer_size |-> args.num_buckets * 2000,
                      shuffle_buffer_size |-> args.num_buckets * 5000,
                      drop_last |-> args.drop_last],
          state |-> None]
    ELSE [kind |-> "SimpleCutSampler",
          cuts |-> cuts_train,
          kwargs |-> [max_duration |-> args.max_duration,
                      shuffle |-> args.shuffle],
          state |-> None]

DevSampler(args, cuts_valid) ==
    [kind |-> "DynamicBucketingSampler",
     cuts |-> cuts_valid,
     kwargs |-> [max_duration |-> args.max_duration,
                 shuffle |-> FALSE],
     state |-> None]

(* A faulty variant: the test sampler given the shuffle option.             *)
TestSamplerShuffleFlag(args, cuts) ==
    [kind |-> "DynamicBucketingSampler",
     cuts |-> cuts,
     kwargs |-> [max_duration |-> args.max_duration,
                 shuffle |-> args.shuffle],
     state |-> None]

TestSampler(args, cuts) ==
    [kind |-> "DynamicBucketingSampler",
     cuts |-> cuts,
     kwargs |-> [max_duration |-> args.max_duration,
                 shuffle |-> FALSE],
     state |-> None]

(* train_sampler.load_state_dict(sampler_state_dict), made only when a     *)
(* state dict was given.                                                   *)
LoadStateDict(sampler, sampler_state_dict) ==
    IF sampler_state_dict # None
    THEN [sampler EXCEPT !.state = sampler_state_dict]
    ELSE sampler

(* The library calls train_dataloaders makes, in program order.            *)
TrainCalls(args, sampler_state_dict) ==
    <<"SpeechSynthesisDataset">>
    \o (IF args.bucketing_sampler THEN <<"DynamicBucketingSampler">>
        ELSE <<"SimpleCutSampler">>)
    \o (IF sampler_state_dict # None THEN <<"load_state_dict">> ELSE <<>>)
    \o <<"torch.randint", "_SeedWorkers", "DataLoader">>

DevCalls ==
    <<"SpeechSynthesisDataset", "DynamicBucketingSampler", "DataLoader">>

TestCalls ==
    <<"SpeechSynthesisDataset", "DynamicBucketingSampler", "DataLoader">>

(* torch.randint(low, high, ()): a value of low..high-1 taken from the     *)
(* ambient generator.  The model enumerates the two ends of the range.     *)
Randint(low, high) == {v \in {low, high - 1} : low <= v /\ v < high}

(* A faulty variant: every worker reseeded with the base seed.              *)
SeedWorkersSameSeed(seed, worker_id) == seed

(* _SeedWorkers.__call__: the seed handed to fix_random_seed.              *)
SeedWorkers(seed, worker_id) == seed + worker_id

-----------------------------------------------------------------------------
(* The loader constructors.                                                *)

train_dataloaders(self, cuts_train, sampler_state_dict) ==
    \E seed \in Randint(0, 100000) :
       LET args == modules[self]
           train == TrainDataset(args)
           train_sampler == LoadStateDict(TrainSampler(args, cuts_train),
                                          sampler_state_dict)
           worker_init_fn == [seed |-> seed]
           train_dl == [phase |-> "train",
                        dataset |-> train,
                        sampler |-> train_sampler,
                        batch_size |-> None,
                        num_workers |-> args.num_workers,
                        persistent_workers |-> Some(FALSE),
                        worker_init_fn |-> Some(worker_init_fn),
                        calls |-> TrainCalls(args, sampler_state_dict)]
       IN /\ Len(loaders) < MaxLoaders
          /\ loaders' = Append(loaders, train_dl)
          /\ draws' = Append(draws, seed)
          /\ workers' = Append(workers, <<>>)
          /\ UNCHANGED <<modules, cacheVars>>

(* A faulty variant: dev_dataloaders drawing a seed it does not use.        *)
dev_dataloaders_drawing(self, cuts_valid) ==
    LET args == modules[self]
    IN \E drawn \in Randint(0, 100000) :
       /\ Len(loaders) < MaxLoaders
       /\ loaders' = Append(loaders,
                            [phase |-> "dev",
                             dataset |-> DevDataset(args),
                             sampler |-> DevSampler(args, cuts_valid),
                             batch_size |-> None,
                             num_workers |-> 2,
                             persistent_workers |-> Some(FALSE),
                             worker_init_fn |-> None,
                             calls |-> DevCalls])
       /\ draws' = Append(draws, drawn)
       /\ workers' = Append(workers, <<>>)
       /\ UNCHANGED <<modules, cacheVars>>

dev_dataloaders(self, cuts_valid) ==
    LET args == modules[self]
        dev_dl == [phase |-> "dev",
                   dataset |-> DevDataset(args),
                   sampler |-> DevSampler(args, cuts_valid),
                   batch_size |-> None,
                   num_workers |-> 2,
                   persistent_workers |-> Some(FALSE),
                   worker_init_fn |-> None,
                   calls |-> DevCalls]
    IN /\ Len(loaders) < MaxLoaders
       /\ loaders' = Append(loaders, dev_dl)
       /\ workers' = Append(workers, <<>>)
       /\ UNCHANGED <<modules, draws, cacheVars>>

test_dataloaders(self, cuts) ==
    LET args == modules[self]
        test_dl == [phase |-> "test",
                    dataset |-> TestDataset(args),
                    sampler |-> TestSampler(args, cuts),
                    batch_size |-> None,
                    num_workers |-> args.num_workers,
                    persistent_workers |-> None,
                    worker_init_fn |-> None,
                    calls |-> TestCalls]
    IN /\ Len(loaders) < MaxLoaders
       /\ loaders' = Append(loaders, test_dl)
       /\ workers' = Append(workers, <<>>)
       /\ UNCHANGED <<modules, draws, cacheVars>>

(* A worker of loader dl starts: the DataLoader calls worker_init_fn with  *)
(* the worker's id when one is installed, and _SeedWorkers reseeds the     *)
(* worker.  Workers are numbered from 0 and started in that order.         *)
WorkerInit(dl) ==
    LET worker_id == Len(workers[dl])
        fn == loaders[dl].worker_init_fn
    IN /\ worker_id < loaders[dl].num_workers
       /\ fn # None
       /\ workers' = [workers EXCEPT
                        ![dl] = Append(@, SeedWorkers(fn[1].seed, worker_id))]
       /\ UNCHANGED <<modules, loaders, draws, cacheVars>>

-----------------------------------------------------------------------------
(* TtsDataModule.__init__: a new object holding args.                      *)
__init__(args) ==
    /\ Len(modules) < MaxModules
    /\ modules' = Append(modules, args)
    /\ UNCHANGED <<loaderVars, cacheVars>>

-----------------------------------------------------------------------------
(* The manifest accessors.  Each is wrapped by functools.lru_cache(), one  *)
(* cache per accessor, shared by every TtsDataModule object; the key is    *)
(* the tuple of the call's arguments, self included.                       *)

(* lru_cache() called without arguments keeps at most 128 entries.         *)
maxsize == 128

CustomAccessors == {"train_custom_cuts", "dev_custom_cuts"}
FixedAccessors ==
    {"train_emilia_EN_cuts", "train_emilia_ZH_cuts",
     "dev_emilia_EN_cuts", "dev_emilia_ZH_cuts",
     "train_libritts_cuts", "dev_libritts_cuts",
     "train_opendialog_en_cuts", "train_opendialog_zh_cuts",
     "dev_opendialog_en_cuts", "dev_opendialog_zh_cuts"}
Accessors == CustomAccessors \cup FixedAccessors

(* A manifest path: a directory, a file name and, for the caller's own     *)
(* manifests, a number that tells them apart.                              *)
ManifestPath(dir, file) == [dir |-> dir, file |-> file, n |-> 0]
CustomManifest(n) == [dir |-> "data/custom", file |-> "cuts.jsonl.gz", n |-> n]

(* A faulty variant: a lookup that never finds the key.                     *)
LookupNever(c, key) == 0

(* The position of key in an accessor's cache, 0 when it holds none.       *)
Lookup(c, key) ==
    IF \E i \in 1..Len(c) : c[i].key = key
    THEN CHOOSE i \in 1..Len(c) : c[i].key = key
    ELSE 0

Remove(c, i) == SubSeq(c, 1, i - 1) \o SubSeq(c, i + 1, Len(c))

(* The cache after a hit at position i: the entry becomes the most recent. *)
Hit(c, i) == Append(Remove(c, i), c[i])

(* Faulty variants: a result that is not cached, and a cache that gives up  *)
(* an entry only once it holds more than maxsize.                          *)
MissNotStored(c, key, value) == c

MissEvictsLate(c, key, value) ==
    Append(IF Len(c) > maxsize THEN Tail(c) ELSE c,
           [key |-> key, value |-> value])

(* The cache after a miss: the new entry is the most recent, and a full    *)
(* cache gives up its least recently used entry for it.                    *)
Miss(c, key, value) ==
    Append(IF Len(c) >= maxsize THEN Tail(c) ELSE c,
           [key |-> key, value |-> value])

(* load_manifest_lazy(path): a new CutSet object, told apart from every    *)
(* other by the number of the call that made it.                           *)
load_manifest_lazy == Len(loads) + 1

(* One call of a wrapped accessor: the cached object on a hit, else the    *)
(* accessor's body runs and its result is cached.                          *)
lru_cache(accessor, key, path) ==
    LET c == cache[accessor]
        i == Lookup(c, key)
    IN IF i # 0
       THEN /\ cache' = [cache EXCEPT ![accessor] = Hit(c, i)]
            /\ result' = Some([accessor |-> accessor, key |-> key,
                               value |-> c[i].value])
            /\ loads' = loads
       ELSE /\ cache' = [cache EXCEPT
                           ![accessor] = Miss(c, key, load_manifest_lazy)]
            /\ result' = Some([accessor |-> accessor, key |-> key,
                               value |-> load_manifest_lazy])
            /\ loads' = Append(loads, [accessor |-> accessor, key |-> key,
                                       path |-> path])

train_custom_cuts(self, manifest_file) ==
    /\ lru_cache("train_custom_cuts", <<self, manifest_file>>, manifest_file)
    /\ UNCHANGED <<modules, loaderVars>>

dev_custom_cuts(self, manifest_file) ==
    /\ lru_cache("dev_custom_cuts", <<self, manifest_file>>, manifest_file)
    /\ UNCHANGED <<modules, loaderVars>>

train_emilia_EN_cuts(self) ==
    /\ lru_cache("train_emilia_EN_cuts", <<self>>,
                 ManifestPath(modules[self].manifest_dir,
                              "emilia_cuts_EN.jsonl.gz"))
    /\ UNCHANGED <<modules, loaderVars>>

train_emilia_ZH_cuts(self) ==
    /\ lru_cache("train_emilia_ZH_cuts", <<self>>,
                 ManifestPath(modules[self].manifest_dir,
                              "emilia_cuts_ZH.jsonl.gz"))
    /\ UNCHANGED <<modules, loaderVars>>

dev_emilia_EN_cuts(self) ==
    /\ lru_cache("dev_emilia_EN_cuts", <<self>>,
                 ManifestPath(modules[self].manifest_dir,
                              "emilia_cuts_EN-dev.jsonl.gz"))
    /\ UNCHANGED <<modules, loaderVars>>

dev_emilia_ZH_cuts(self) ==
    /\ lru_cache("dev_emilia_ZH_cuts", <<self>>,
                 ManifestPath(modules[self].manifest_dir,
                              "emilia_cuts_ZH-dev.jsonl.gz"))
    /\ UNCHANGED <<modules, loaderVars>>

train_libritts_cuts(self) ==
    /\ lru_cache("train_libritts_cuts", <<self>>,
                 ManifestPath(modules[self].manifest_dir,
                              "libritts_cuts_train-all-shuf.jsonl.gz"))
    /\ UNCHANGED <<modules, loaderVars>>

dev_libritts_cuts(self) ==
    /\ lru_cache("dev_libritts_cuts", <<self>>,
                 ManifestPath(modules[self].manifest_dir,
                              "libritts_cuts_dev-clean.jsonl.gz"))
    /\ UNCHANGED <<modules, loaderVars>>

train_opendialog_en_cuts(self) ==
    /\ lru_cache("train_opendialog_en_cuts", <<self>>,
                 ManifestPath(modules[self].manifest_dir,
                              "opendialog_cuts_EN-train.jsonl.gz"))
    /\ UNCHANGED <<modules, loaderVars>>

train_opendialog_zh_cuts(self) ==
    /\ lru_cache("train_opendialog_zh_cuts", <<self>>,
                 ManifestPath(modules[self].manifest_dir,
                              "opendialog_cuts_ZH-train.jsonl.gz"))
    /\ UNCHANGED <<modules, loaderVars>>

dev_opendialog_en_cuts(self) ==
    /\ lru_cache("dev_opendialog_en_cuts", <<self>>,
                 ManifestPath(modules[self].manifest_dir,
                              "opendialog_cuts_EN-dev.jsonl.gz"))
    /\ UNCHANGED <<modules, loaderVars>>

dev_opendialog_zh_cuts(self) ==
    /\ lru_cache("dev_opendialog_zh_cuts", <<self>>,
                 ManifestPath(modules[self].manifest_dir,
                              "opendialog_cuts_ZH-dev.jsonl.gz"))
    /\ UNCHANGED <<modules, loaderVars>>

-----------------------------------------------------------------------------
(* The state of a fresh process: nothing built, every cache empty.         *)
InitProcess ==
    /\ loaders = <<>>
    /\ draws = <<>>
    /\ workers = <<>>
    /\ cache = [a \in Accessors |-> <<>>]
    /\ loads = <<>>
    /\ result = None

(* The loader constructors, from one TtsDataModule of any configuration.   *)
Init ==
    /\ modules \in {<<args>> : args \in ArgsSet}
    /\ InitProcess

Next ==
    \/ \E self \in 1..Len(modules), cuts_train \in TrainCutSets,
          sampler_state_dict \in StateDicts :
          train_dataloaders(self, cuts_train, sampler_state_dict)
    \/ \E self \in 1..Len(modules), cuts_valid \in CutSets :
          dev_dataloaders(self, cuts_valid)
    \/ \E self \in 1..Len(modules), cuts \in CutSets :
          test_dataloaders(self, cuts)
    \/ \E dl \in 1..Len(loaders) : WorkerInit(dl)

Spec == Init /\ [][Next]_vars

-----------------------------------------------------------------------------
(* The manifest accessors, called on up to MaxModules objects with up to   *)
(* MaxCustom manifests of the caller's own, until MaxCalls manifests have  *)
(* been loaded.                                                            *)

(* Every object is built from the one parsed configuration.                *)
CacheArgs == {DefaultArgs}

CacheInit ==
    /\ modules \in {<<args>> : args \in CacheArgs}
    /\ InitProcess

(* A call is taken while it leaves at most MaxCalls manifests loaded.      *)
WithinCalls(call) == call /\ Len(loads') <= MaxCalls

CacheNext ==
    \/ \E args \in CacheArgs : __init__(args)
    \/ \E self \in 1..Len(modules), n \in 1..MaxCustom :
          WithinCalls(train_custom_cuts(self, CustomManifest(n)))
    \/ \E self \in 1..Len(modules), n \in 1..MaxCustom :
          WithinCalls(dev_custom_cuts(self, CustomManifest(n)))
    \/ \E self \in 1..Len(modules) : WithinCalls(train_emilia_EN_cuts(self))
    \/ \E self \in 1..Len(modules) : WithinCalls(train_emilia_ZH_cuts(self))
    \/ \E self \in 1..Len(modules) : WithinCalls(dev_emilia_EN_cuts(self))
    \/ \E self \in 1..Len(modules) : WithinCalls(dev_emilia_ZH_cuts(self))
    \/ \E self \in 1..Len(modules) : WithinCalls(train_libritts_cuts(self))
    \/ \E self \in 1..Len(modules) : WithinCalls(dev_libritts_cuts(self))
    \/ \E self \in 1..Len(modules) : WithinCalls(train_opendialog_en_cuts(self))
    \/ \E self \in 1..Len(modules) : WithinCalls(train_opendialog_zh_cuts(self))
    \/ \E self \in 1..Len(modules) : WithinCalls(dev_opendialog_en_cuts(self))
    \/ \E self \in 1..Len(modules) : WithinCalls(dev_opendialog_zh_cuts(self))

CacheSpec == CacheInit /\ [][CacheNext]_vars

-----------------------------------------------------------------------------
(* One object asked for more manifests of the caller's own than a cache    *)
(* holds: each new manifest in turn, and the first one again at any time.  *)

(* New manifests are numbered in the order they are first asked for, so    *)
(* the newest number is the count of distinct manifests loaded so far.     *)
Newest == Cardinality({loads[i].path.n : i \in 1..Len(loads)})

EvictInit ==
    /\ modules = <<DefaultArgs>>
    /\ InitProcess

EvictNext ==
    \/ /\ Newest < maxsize + MaxExtra
       /\ train_custom_cuts(1, CustomManifest(Newest + 1))
    \/ /\ Newest >= 1
       /\ train_custom_cuts(1, CustomManifest(1))

EvictSpec == EvictInit /\ [][EvictNext]_vars

-----------------------------------------------------------------------------
(* Properties of the loader constructors, checked under Spec.              *)

TrainLoaders == {dl \in 1..Len(loaders) : loaders[dl].phase = "train"}
EvalLoaders == {dl \in 1..Len(loaders) : loaders[dl].phase \in {"dev", "test"}}
TrainRank(dl) == Cardinality({d \in TrainLoaders : d <= dl})
Count(calls, name) == Cardinality({i \in 1..Len(calls) : calls[i] = name})

(* C4: every started worker W of a training loader that captured base seed *)
(* S was reseeded with S + W, and two training loaders that captured the   *)
(* same S gave their workers the same seeds.                               *)
ThmC4 ==
    /\ \A dl \in TrainLoaders :
         \A w \in 1..Len(workers[dl]) :
            workers[dl][w] = loaders[dl].worker_init_fn[1].seed + (w - 1)
    /\ \A d1 \in TrainLoaders, d2 \in TrainLoaders :
         loaders[d1].worker_init_fn = loaders[d2].worker_init_fn
            => \A w \in 1..Len(workers[d1]) :
                  w <= Len(workers[d2]) => workers[d1][w] = workers[d2][w]

WitC4 ==
    /\ Len(loaders) = 2
    /\ TrainLoaders = {1, 2}
    /\ loaders[1].worker_init_fn = Some([seed |-> 99999])
    /\ loaders[2].worker_init_fn = Some([seed |-> 99999])
    /\ workers[1] = <<99999, 100000>>
    /\ workers[2] = <<99999, 100000>>

ThmC7 ==
    \A dl \in 1..Len(loaders) :
       LET ds == loaders[dl].dataset
           args == modules[1]
       IN /\ ds.return_text = TRUE
          /\ ds.return_tokens = TRUE
          /\ ds.return_spk_ids = TRUE
          /\ ds.return_cuts = args.return_cuts
          /\ args.on_the_fly_feats
                => ds.feature_input_strategy = "OnTheFlyFeatures(VocosFbank)"
          /\ ~args.on_the_fly_feats
                => ds.feature_input_strategy = "PrecomputedFeatures"
          /\ loaders[dl].phase = "test"
                => "return_audio" \in DOMAIN ds /\ ds.return_audio = TRUE
          /\ loaders[dl].phase \in {"train", "dev"}
                => "return_audio" \notin DOMAIN ds

WitC7 ==
    /\ modules[1].on_the_fly_feats = TRUE
    /\ modules[1].return_cuts = TRUE
    /\ Len(loaders) = 2
    /\ loaders[1].phase = "dev"
    /\ loaders[2].phase = "test"
    /\ loaders[2].dataset.return_audio = TRUE
    /\ loaders[1].dataset.feature_input_strategy = "OnTheFlyFeatures(VocosFbank)"

(* C9: the training sampler is a DynamicBucketingSampler exactly when      *)
(* bucketing-sampler is set, given max duration, bucket count, shuffle,    *)
(* drop-last and buffers of 2000 and 5000 per bucket, and otherwise a      *)
(* SimpleCutSampler given max duration and shuffle only; the dev and test  *)
(* samplers are DynamicBucketingSamplers given max duration and            *)
(* shuffle=False only, whatever the options are.                           *)
ThmC9 ==
    \A dl \in 1..Len(loaders) :
       LET sampler == loaders[dl].sampler
           args == modules[1]
       IN /\ (loaders[dl].phase = "train" /\ args.bucketing_sampler)
                => /\ sampler.kind = "DynamicBucketingSampler"
                   /\ DOMAIN sampler.kwargs =
                         {"max_duration", "shuffle", "num_buckets",
                          "buffer_size", "shuffle_buffer_size", "drop_last"}
                   /\ sampler.kwargs.max_duration = args.max_duration
                   /\ sampler.kwargs.shuffle = args.shuffle
                   /\ sampler.kwargs.num_buckets = args.num_buckets
                   /\ sampler.kwargs.buffer_size = 2000 * args.num_buckets
                   /\ sampler.kwargs.shuffle_buffer_size =
                         5000 * args.num_buckets
                   /\ sampler.kwargs.drop_last = args.drop_last
          /\ (loaders[dl].phase = "train" /\ ~args.bucketing_sampler)
                => /\ sampler.kind = "SimpleCutSampler"
                   /\ DOMAIN sampler.kwargs = {"max_duration", "shuffle"}
                   /\ sampler.kwargs.max_duration = args.max_duration
                   /\ sampler.kwargs.shuffle = args.shuffle
          /\ loaders[dl].phase \in {"dev", "test"}
                => /\ sampler.kind = "DynamicBucketingSampler"
                   /\ DOMAIN sampler.kwargs = {"max_duration", "shuffle"}
                   /\ sampler.kwargs.max_duration = args.max_duration
                   /\ sampler.kwargs.shuffle = FALSE

WitC9 ==
    /\ ~modules[1].bucketing_sampler
    /\ modules[1].shuffle = TRUE
    /\ modules[1].drop_last = TRUE
    /\ Len(loaders) = 2
    /\ loaders[1].phase = "train"
    /\ loaders[1].sampler.kind = "SimpleCutSampler"
    /\ loaders[2].phase = "dev"
    /\ loaders[2].sampler.kind = "DynamicBucketingSampler"

(* C10: the ambient generator has been drawn from once per training loader *)
(* built; the k-th training loader captured the k-th draw, a value of      *)
(* 0..99999, drawn once and after load_state_dict when a state was given;  *)
(* dev and test loaders drew nothing and carry no worker_init_fn.          *)
ThmC10 ==
    /\ Len(draws) = Cardinality(TrainLoaders)
    /\ \A dl \in TrainLoaders :
         LET dl_ == loaders[dl]
         IN /\ dl_.worker_init_fn # None
            /\ dl_.worker_init_fn[1].seed = draws[TrainRank(dl)]
            /\ dl_.worker_init_fn[1].seed \in 0..99999
            /\ Count(dl_.calls, "torch.randint") = 1
            /\ (dl_.sampler.state # None)
                  <=> (Count(dl_.calls, "load_state_dict") = 1)
            /\ \A i \in 1..Len(dl_.calls), j \in 1..Len(dl_.calls) :
                  (dl_.calls[i] = "load_state_dict"
                   /\ dl_.calls[j] = "torch.randint") => i < j
    /\ \A dl \in EvalLoaders :
         /\ loaders[dl].worker_init_fn = None
         /\ Count(loaders[dl].calls, "torch.randint") = 0

WitC10 ==
    /\ Len(loaders) = 2
    /\ loaders[1].phase = "train"
    /\ loaders[1].sampler.state # None
    /\ loaders[2].phase = "train"
    /\ loaders[2].sampler.state = None
    /\ draws = <<0, 99999>>
    /\ loaders[2].worker_init_fn = Some([seed |-> 99999])

-----------------------------------------------------------------------------
(* Properties of the manifest accessors.                                   *)

LoadsOf(accessor, key) ==
    {i \in 1..Len(loads) : loads[i].accessor = accessor /\ loads[i].key = key}
KeysUsed(accessor) ==
    {loads[i].key : i \in {j \in 1..Len(loads) : loads[j].accessor = accessor}}

(* C3 as stated: no manifest path is loaded twice, whichever accessors and *)
(* objects asked for it.                                                   *)
CexC3 ==
    \A i \in 1..Len(loads), j \in 1..Len(loads) :
       loads[i].path = loads[j].path => i = j

(* C3 as amended: a call signature (accessor, object, manifest argument)   *)
(* is loaded at most once as long as no more than 128 distinct signatures  *)
(* were used on its accessor.                                              *)
ThmC3 ==
    \A i \in 1..Len(loads), j \in 1..Len(loads) :
       (/\ i < j
        /\ loads[i].accessor = loads[j].accessor
        /\ loads[i].key = loads[j].key)
          => Cardinality(KeysUsed(loads[i].accessor)) > 128

WitC3 ==
    /\ Len(modules) = 2
    /\ modules[1].manifest_dir = modules[2].manifest_dir
    /\ Len(loads) = 2
    /\ loads[1].accessor = "train_emilia_EN_cuts"
    /\ loads[2].accessor = "train_emilia_EN_cuts"
    /\ loads[1].path = loads[2].path
    /\ result = Some([accessor |-> "train_emilia_EN_cuts", key |-> <<1>>,
                      value |-> 1])

Values(c) == {c[i].value : i \in 1..Len(c)}
Keys(c) == {c[i].key : i \in 1..Len(c)}

(* C2 as stated: every call of an accessor by one object with one manifest *)
(* path returns the collection its first such call returned, and calls     *)
(* with different paths return different collections.                      *)
CexC2 ==
    /\ result # None
          => \A i \in LoadsOf(result[1].accessor, result[1].key) :
                result[1].value <= i
    /\ \A a \in Accessors :
         /\ Cardinality(Values(cache[a])) = Len(cache[a])
         /\ \A b \in Accessors \ {a} :
               Values(cache[a]) \cap Values(cache[b]) = {}

(* C2 as amended: as long as no more than 128 distinct signatures were     *)
(* used on an accessor, every call of it returns the collection the first  *)
(* call with that signature returned, which was loaded once; collections   *)
(* cached for different signatures are different.                          *)
ThmC2 ==
    /\ (result # None /\ Cardinality(KeysUsed(result[1].accessor)) <= 128)
          => /\ LoadsOf(result[1].accessor, result[1].key) # {}
             /\ \A i \in LoadsOf(result[1].accessor, result[1].key) :
                   result[1].value = i
    /\ \A a \in Accessors :
         /\ Cardinality(Values(cache[a])) = Len(cache[a])
         /\ \A b \in Accessors \ {a} :
               Values(cache[a]) \cap Values(cache[b]) = {}

WitC2 ==
    /\ Len(loads) = 100
    /\ result = Some([accessor |-> "train_custom_cuts",
                      key |-> <<1, CustomManifest(1)>>, value |-> 1])

Entries(c) == {c[i] : i \in 1..Len(c)}

(* C8 as stated: no entry of an accessor's cache is ever removed or        *)
(* replaced.                                                               *)
CexC8 ==
    [][\A a \in Accessors : Entries(cache[a]) \subseteq Entries(cache'[a])]_vars

(* C8 as amended: a cache holds at most 128 entries, one per signature; no *)
(* entry is removed or replaced while fewer than 128 are held or when the  *)
(* call is a hit, and a call with a new signature on a full cache removes  *)
(* exactly the first entry in recency order, the least recently used.      *)
ThmC8 ==
    [][\A a \in Accessors :
         LET missed == /\ Len(loads') = Len(loads) + 1
                       /\ loads'[Len(loads')].accessor = a
         IN /\ Len(cache'[a]) <= 128
            /\ Cardinality(Keys(cache'[a])) = Len(cache'[a])
            /\ (Len(cache[a]) < 128 \/ ~missed)
                  => Entries(cache[a]) \subseteq Entries(cache'[a])
            /\ (Len(cache[a]) = 128 /\ missed)
                  => /\ Entries(cache[a]) \ Entries(cache'[a])
                           = {Head(cache[a])}
                     /\ Len(cache'[a]) = 128]_vars

WitC8 ==
    /\ Len(cache["train_custom_cuts"]) = 128
    /\ Len(loads) = 130
    /\ cache["train_custom_cuts"][128].key = <<1, CustomManifest(1)>>
    /\ cache["train_custom_cuts"][128].value = 130

====
